---- MODULE Spec2Model ----
(***************************************************************************)
(* RSSI multilateration: the per-tower reading/distance buffers            *)
(* (RSSI_Calculator, single-read and multiple-read variants), the          *)
(* log-distance path-loss conversion (RSSI), the outlier filters and the   *)
(* Multilateration solve (PDU_GUI and PDU_GUI_Strength_Graph variants).    *)
(* Further specifications cover get_distance and set_rssi_naught alone,    *)
(* one batch through the admit path, admits by tower name, and the         *)
(* refresh cycle of the PDU_GUI app (kivy_app.py, main.py).                *)
(*                                                                         *)
(* Numbers.  Distances are fixed-point hundredths of a foot, truncated;    *)
(* an average is kept as the exact fraction num/den.  Readings are drawn   *)
(* from a grid on which the path-loss exponent (RSSI0 - rssi) / (10 n) is  *)
(* an integer, so that 10 ** exponent is an exact power of ten.  The       *)
(* filters are computed in exact integer arithmetic (cross-multiplied),    *)
(* i.e. as the real-number result the floating-point code approximates.    *)
(***************************************************************************)
EXTENDS Integers, Sequences, FiniteSets, TLC

\* ----------------------------------------------------------------- bounds
\* Samples handed to the buffers over a whole run (all towers together).
MaxAdmits == 3
\* Stands for deque(maxlen=100) of the multiple-read variant.
DequeMaxLen == 2
\* Longest batch: filtered on its own in SpecFilter, admitted in SpecBatch.
MaxBatch == 7
\* Samples already admitted when the batch of SpecBatch arrives.
MaxPrior == 1
\* Samples admitted in SpecRecal, around a change of the reference RSSI.
MaxRecalAdmits == 2
\* Samples in the history once a get_tower_signal has run: a scan starts
\* only with room for one sample per tower.
MaxSignalAdmits == 4

\* -------------------------------------------------------------- constants
max_readings == 1

Towers == <<"Tower 1", "Tower 2", "Tower 3", "Tower 4">>
TowerSet == {Towers[i] : i \in 1..Len(Towers)}

\* A site five times as long on each side, with the same solver bounds.
tower_positions_large_site ==
    [t \in TowerSet |->
        CASE t = "Tower 1" -> <<0, 0>>
          [] t = "Tower 2" -> <<1500, 0>>
          [] t = "Tower 3" -> <<1500, 1500>>
          [] t = "Tower 4" -> <<0, 1500>>]

tower_positions ==
    [t \in TowerSet |->
        CASE t = "Tower 1" -> <<0, 0>>
          [] t = "Tower 2" -> <<300, 0>>
          [] t = "Tower 3" -> <<300, 300>>
          [] t = "Tower 4" -> <<0, 300>>]

\* The grid of readings for a reference strength r0: exponents 3, 1, 0 for
\* n = 2 (3280.84 ft, 32.80 ft, 3.28 ft), exponents -3, -1, 0 for n = -2.
ReadingValues(r0) == {r0 - 60, r0 - 20, r0}

\* ---------------------------------------------------------------- helpers
Abs(x) == IF x < 0 THEN -x ELSE x

RECURSIVE Pow10(_)
Pow10(k) == IF k <= 0 THEN 1 ELSE 10 * Pow10(k - 1)

RECURSIVE SeqSum(_)
SeqSum(s) == IF s = <<>> THEN 0 ELSE Head(s) + SeqSum(Tail(s))

RECURSIVE SeqSumSq(_)
SeqSumSq(s) == IF s = <<>> THEN 0 ELSE Head(s) * Head(s) + SeqSumSq(Tail(s))

RECURSIVE Insert(_, _)
Insert(x, s) ==
    IF s = <<>> THEN <<x>>
    ELSE IF x <= Head(s) THEN <<x>> \o s
         ELSE <<Head(s)>> \o Insert(x, Tail(s))

\* np.percentile sorts its input.
RECURSIVE Sorted(_)
Sorted(s) == IF s = <<>> THEN <<>> ELSE Insert(Head(s), Sorted(Tail(s)))

\* Sequences over S of length lo..hi.
SeqsOf(S, lo, hi) == UNION {[1..k -> S] : k \in lo..hi}

\* ------------------------------------------------------------ rssi.py RSSI
\* meters is the fraction num/den; the result is hundredths of a foot.
meters_to_feet(meters) == (meters.num * 328084) \div (meters.den * 1000)

\* get_distance with the sign of the exponent lost.
get_distance_magnitude(r0, nn, signal_strength) ==
    IF nn = 0
    THEN [raised |-> TRUE, d |-> 0]
    ELSE LET e == Abs(r0 - signal_strength) \div Abs(10 * nn)
         IN  [raised |-> FALSE, d |-> meters_to_feet([num |-> Pow10(e), den |-> 1])]

\* 10 ** ((RSSI_NAUGHT - signal_strength) / (10 * n)); the division raises
\* ZeroDivisionError when n = 0.
get_distance(r0, nn, signal_strength) ==
    IF nn = 0
    THEN [raised |-> TRUE, d |-> 0]
    ELSE LET num == r0 - signal_strength
             den == 10 * nn
             e == Abs(num) \div Abs(den)
             negative == (num < 0) # (den < 0)
             meters == IF negative THEN [num |-> 1, den |-> Pow10(e)]
                                   ELSE [num |-> Pow10(e), den |-> 1]
         IN  [raised |-> FALSE, d |-> meters_to_feet(meters)]

\* ------------------------------------------------------- outlier filters
\* z_score_filter with the threshold left unsquared against the variance.
z_score_filter_unsquared(data, threshold) ==
    LET N == Len(data)
        S == SeqSum(data)
        Q == SeqSumSq(data)
        V == N * Q - S * S
        keep(x) == V = 0 \/ (N * x - S) * (N * x - S) < threshold * V
    IN  SelectSeq(data, keep)

\* z_score_filter with <= in place of <: a value exactly at the threshold
\* is kept.
z_score_filter_inclusive(data, threshold) ==
    LET N == Len(data)
        S == SeqSum(data)
        Q == SeqSumSq(data)
        V == N * Q - S * S
        keep(x) == V = 0 \/ (N * x - S) * (N * x - S) <= threshold * threshold * V
    IN  SelectSeq(data, keep)

\* z_score_filter without the "stdev == 0 or" guard: a batch of equal
\* values has every z-score undefined and is dropped whole.
z_score_filter_no_zero_guard(data, threshold) ==
    LET N == Len(data)
        S == SeqSum(data)
        Q == SeqSumSq(data)
        V == N * Q - S * S
        keep(x) == (N * x - S) * (N * x - S) < threshold * threshold * V
    IN  SelectSeq(data, keep)

\* abs((x - avg) / stdev) < threshold, with avg = S/N and stdev^2 =
\* (N*Q - S*S) / N^2, cross-multiplied by N^2 * stdev^2.
z_score_filter(data, threshold) ==
    LET N == Len(data)
        S == SeqSum(data)
        Q == SeqSumSq(data)
        V == N * Q - S * S
        keep(x) == V = 0 \/ (N * x - S) * (N * x - S) < threshold * threshold * V
    IN  SelectSeq(data, keep)

\* np.percentile(data, p), linear interpolation, times 4.
Percentile4(data, quarter) ==
    LET s == Sorted(data)
        h == quarter * (Len(data) - 1)
        i == h \div 4
        r == h % 4
    IN  IF r = 0 THEN 4 * s[i + 1]
        ELSE 4 * s[i + 1] + r * (s[i + 2] - s[i + 1])

iqr_filter(data, threshold) ==
    LET q1 == Percentile4(data, 1)
        q3 == Percentile4(data, 3)
        iqr == q3 - q1
        lower_bound == q1 - threshold * iqr
        upper_bound == q3 + threshold * iqr
        keep(x) == lower_bound <= 4 * x /\ 4 * x <= upper_bound
    IN  SelectSeq(data, keep)

\* filter_outliers without its final else: any other name runs the z-score.
filter_outliers_no_else(data, method, threshold) ==
    IF data = <<>> THEN [raised |-> FALSE, out |-> <<>>]
    ELSE IF method = "iqr"
         THEN [raised |-> FALSE, out |-> iqr_filter(data, threshold)]
    ELSE [raised |-> FALSE, out |-> z_score_filter(data, threshold)]

filter_outliers(data, method, threshold) ==
    IF data = <<>> THEN [raised |-> FALSE, out |-> <<>>]
    ELSE IF method = "z_score"
         THEN [raised |-> FALSE, out |-> z_score_filter(data, threshold)]
    ELSE IF method = "iqr"
         THEN [raised |-> FALSE, out |-> iqr_filter(data, threshold)]
    ELSE [raised |-> TRUE, out |-> <<>>]

\* ------------------------------------------------------------------ state
VARIABLES
    calcVariant,        \* "BASE" (PDU_GUI_BASE) or "MULTI" (PDU_MULTIPLE_READ)
    RSSI_NAUGHT,        \* RSSI.RSSI_NAUGHT
    n,                  \* RSSI.n
    readings,           \* RSSI_Calculator.readings: tower -> list, oldest first
    distances,          \* RSSI_Calculator.distances
    admitted,           \* history: every sample handed to a tower's buffer
    ret,                \* the last call: its name, tower and outcome
    mlatVariant,        \* "none", "GUI" (PDU_GUI) or "SG" (PDU_GUI_Strength_Graph)
    towers_for_multilateration,
    down_tower,
    estimated_position,
    solve,              \* what the last multilaterate call did
    data,               \* filter_outliers: the batch,
    method,             \*   the method name,
    threshold,          \*   the threshold,
    filtered,           \*   the outcome of filter_outliers(data),
    refiltered,         \*   the outcome of filtering that result again
    probe,              \* get_distance alone: two signal strengths, distances
    pc                  \* the timer callback's position in main.main()

calcVars == <<calcVariant, RSSI_NAUGHT, n, readings, distances, admitted>>
mlatVars == <<mlatVariant, towers_for_multilateration, down_tower,
              estimated_position, solve>>
filterVars == <<data, method, threshold, filtered, refiltered>>
vars == <<calcVars, ret, mlatVars, filterVars, probe, pc>>

\* None for estimated_position and down_tower; towers_for_multilateration can
\* also be the empty list, so its None is a list no selection produces.
None == <<>>
NotSelected == <<"None">>
NoSolve == [called |-> FALSE, raised |-> FALSE, optimizer |-> "not invoked",
            residuals |-> {}, rejected |-> {}]
NotFiltered == [raised |-> FALSE, out |-> <<>>, done |-> FALSE]
NotProbed == [done |-> FALSE, raised |-> FALSE, a |-> 0, b |-> 0, da |-> 0, db |-> 0]
Idle == [at |-> "idle", i |-> 0]

Ret(op, tower, kind, num, den) ==
    [op |-> op, tower |-> tower, kind |-> kind, num |-> num, den |-> den]

Buffers == [readings |-> readings, distances |-> distances, admitted |-> admitted]

TotalAdmitted(c) ==
    Len(c.admitted[Towers[1]]) + Len(c.admitted[Towers[2]])
    + Len(c.admitted[Towers[3]]) + Len(c.admitted[Towers[4]])

\* ---------------------------------------------------------- RSSI_Calculator
\* collections.deque(maxlen=...).append: a full deque drops its oldest.
DequeAppend(q, x) ==
    IF Len(q) >= DequeMaxLen THEN Tail(Append(q, x)) ELSE Append(q, x)

RECURSIVE DequeExtend(_, _)
DequeExtend(q, xs) ==
    IF xs = <<>> THEN q ELSE DequeExtend(DequeAppend(q, Head(xs)), Tail(xs))

\* Single-read variant: append the reading, add_distance (which may raise
\* first), then drop the oldest pair when over max_readings.
add_reading_and_distance_BASE(c, tower, reading) ==
    LET r1 == Append(c.readings[tower], reading)
        gd == get_distance(RSSI_NAUGHT, n, r1[Len(r1)])
        d1 == Append(c.distances[tower], gd.d)
        a1 == [c.admitted EXCEPT ![tower] = Append(@, reading)]
        over == Len(r1) > max_readings
    IN  IF gd.raised
        THEN [raised |-> TRUE,
              c |-> [readings |-> [c.readings EXCEPT ![tower] = r1],
                     distances |-> c.distances, admitted |-> a1]]
        ELSE [raised |-> FALSE,
              c |-> [readings |-> [c.readings EXCEPT ![tower] =
                                      IF over THEN Tail(r1) ELSE r1],
                     distances |-> [c.distances EXCEPT ![tower] =
                                      IF over THEN Tail(d1) ELSE d1],
                     admitted |-> a1]]

\* Multiple-read variant: both lists are deques; the reading is appended
\* before the distance is computed.
add_reading_and_distance_MULTI(c, tower, reading) ==
    LET r1 == DequeAppend(c.readings[tower], reading)
        gd == get_distance(RSSI_NAUGHT, n, reading)
        a1 == [c.admitted EXCEPT ![tower] = Append(@, reading)]
    IN  IF gd.raised
        THEN [raised |-> TRUE,
              c |-> [readings |-> [c.readings EXCEPT ![tower] = r1],
                     distances |-> c.distances, admitted |-> a1]]
        ELSE [raised |-> FALSE,
              c |-> [readings |-> [c.readings EXCEPT ![tower] = r1],
                     distances |-> [c.distances EXCEPT ![tower] =
                                      DequeAppend(@, gd.d)],
                     admitted |-> a1]]

add_reading_and_distance(c, tower, reading) ==
    IF calcVariant = "BASE"
    THEN add_reading_and_distance_BASE(c, tower, reading)
    ELSE add_reading_and_distance_MULTI(c, tower, reading)

\* [self.RSSI.get_distance(reading) for reading in readings]
DistancesOf(rs) == [i \in 1..Len(rs) |-> get_distance(RSSI_NAUGHT, n, rs[i]).d]

\* Multiple-read variant only: filter with the defaults ('z_score', 2),
\* extend the readings, then compute every distance and extend the distances.
add_readings_and_distances(c, tower, batch) ==
    LET filtered_readings == filter_outliers(batch, "z_score", 2).out
        r1 == DequeExtend(c.readings[tower], filtered_readings)
        a1 == [c.admitted EXCEPT ![tower] = @ \o filtered_readings]
        raises == filtered_readings # <<>> /\ n = 0
    IN  IF raises
        THEN [raised |-> TRUE,
              c |-> [readings |-> [c.readings EXCEPT ![tower] = r1],
                     distances |-> c.distances, admitted |-> a1]]
        ELSE [raised |-> FALSE,
              c |-> [readings |-> [c.readings EXCEPT ![tower] = r1],
                     distances |-> [c.distances EXCEPT ![tower] =
                                      DequeExtend(@, DistancesOf(filtered_readings))],
                     admitted |-> a1]]

\* sum(values) / len(values): the single-read variant divides by zero on an
\* empty list, the multiple-read variant returns 0.
get_average(values) ==
    IF values # <<>>
    THEN [kind |-> "value", num |-> SeqSum(values), den |-> Len(values)]
    ELSE IF calcVariant = "BASE"
         THEN [kind |-> "ZeroDivisionError", num |-> 0, den |-> 1]
         ELSE [kind |-> "value", num |-> 0, den |-> 1]

get_average_reading(tower) == get_average(readings[tower])
get_average_distance(tower) == get_average(distances[tower])

\* WifiTowerScanner.get_tower_signal: one call per tower in order; an
\* exception ends the loop.  signal[tower] is a reading (single-read) or a
\* batch (multiple-read).
RECURSIVE SignalFrom(_, _, _)
SignalFrom(c, i, signal) ==
    IF i > Len(Towers) THEN [raised |-> FALSE, c |-> c]
    ELSE LET step == IF calcVariant = "BASE"
                     THEN add_reading_and_distance(c, Towers[i], signal[Towers[i]])
                     ELSE add_readings_and_distances(c, Towers[i], signal[Towers[i]])
         IN  IF step.raised THEN step ELSE SignalFrom(step.c, i + 1, signal)

Signals ==
    IF calcVariant = "BASE"
    THEN [TowerSet -> ReadingValues(RSSI_NAUGHT)]
    ELSE UNION {[TowerSet -> [1..k -> ReadingValues(RSSI_NAUGHT)]] :
                    k \in 1..(MaxSignalAdmits \div Len(Towers))}

Outcome(step) == IF step.raised THEN "ZeroDivisionError" ELSE "ok"

\* ---------------------------------------------------------------- actions
Commit(step, op, tower, budget) ==
    /\ TotalAdmitted(step.c) <= budget
    /\ readings' = step.c.readings
    /\ distances' = step.c.distances
    /\ admitted' = step.c.admitted
    /\ ret' = Ret(op, tower, Outcome(step), 0, 1)
    /\ UNCHANGED <<calcVariant, RSSI_NAUGHT, n, mlatVars, filterVars, probe, pc>>

AddReadingAndDistance ==
    \E tower \in TowerSet, reading \in ReadingValues(RSSI_NAUGHT) :
        Commit(add_reading_and_distance(Buffers, tower, reading),
               "add_reading_and_distance", tower, MaxAdmits)

AddReadingsAndDistances ==
    /\ calcVariant = "MULTI"
    /\ \E tower \in TowerSet :
       \E batch \in SeqsOf(ReadingValues(RSSI_NAUGHT), 0, MaxAdmits - TotalAdmitted(Buffers)) :
            Commit(add_readings_and_distances(Buffers, tower, batch),
                   "add_readings_and_distances", tower, MaxAdmits)

GetTowerSignal ==
    /\ TotalAdmitted(Buffers) + Len(Towers) <= MaxSignalAdmits
    /\ \E signal \in Signals :
        Commit(SignalFrom(Buffers, 1, signal), "get_tower_signal", "",
               MaxSignalAdmits)

GetAverageReading ==
    \E tower \in TowerSet :
        LET r == get_average_reading(tower)
        IN  /\ ret' = Ret("get_average_reading", tower, r.kind, r.num, r.den)
            /\ UNCHANGED <<calcVars, mlatVars, filterVars, probe, pc>>

GetAverageDistance ==
    \E tower \in TowerSet :
        LET r == get_average_distance(tower)
        IN  /\ ret' = Ret("get_average_distance", tower, r.kind, r.num, r.den)
            /\ UNCHANGED <<calcVars, mlatVars, filterVars, probe, pc>>

\* ------------------------------------------------------- the calculator
EmptyBuffers == [t \in TowerSet |-> <<>>]

InitCommon ==
    /\ readings = EmptyBuffers
    /\ distances = EmptyBuffers
    /\ admitted = EmptyBuffers
    /\ ret = Ret("__init__", "", "ok", 0, 1)
    /\ towers_for_multilateration = NotSelected
    /\ down_tower = None
    /\ estimated_position = None
    /\ solve = NoSolve
    /\ filtered = NotFiltered
    /\ refiltered = NotFiltered
    /\ probe = NotProbed
    /\ pc = Idle

NoBatch ==
    /\ data = <<>>
    /\ method = "z_score"
    /\ threshold = 2

\* RSSI_Calculator(RSSI_NAUGHT, n) on its own: either variant; n = 0 is
\* accepted by the constructor.
Init ==
    /\ calcVariant \in {"BASE", "MULTI"}
    /\ RSSI_NAUGHT = -40
    /\ n \in {0, 2}
    /\ mlatVariant = "none"
    /\ InitCommon
    /\ NoBatch

Next ==
    \/ AddReadingAndDistance
    \/ AddReadingsAndDistances
    \/ GetAverageReading
    \/ GetAverageDistance

Spec == Init /\ [][Next]_vars

\* ------------------------------------------------- filter_outliers alone
FilterOutliers ==
    /\ ~filtered.done
    /\ LET r == filter_outliers(data, method, threshold)
       IN  filtered' = [raised |-> r.raised, out |-> r.out, done |-> TRUE]
    /\ ret' = Ret("filter_outliers", "", IF filtered'.raised THEN "ValueError" ELSE "ok", 0, 1)
    /\ UNCHANGED <<calcVars, mlatVars, data, method, threshold, refiltered, probe, pc>>

\* filter_outliers(filter_outliers(data)), same method and threshold.
FilterAgain ==
    /\ filtered.done /\ ~filtered.raised /\ ~refiltered.done
    /\ LET r == filter_outliers(filtered.out, method, threshold)
       IN  refiltered' = [raised |-> r.raised, out |-> r.out, done |-> TRUE]
    /\ ret' = Ret("filter_outliers", "", IF refiltered'.raised THEN "ValueError" ELSE "ok", 0, 1)
    /\ UNCHANGED <<calcVars, mlatVars, data, method, threshold, filtered, probe, pc>>

InitFilter ==
    /\ calcVariant = "MULTI"
    /\ RSSI_NAUGHT = -40
    /\ n = 2
    /\ mlatVariant = "none"
    /\ InitCommon
    /\ data \in SeqsOf(ReadingValues(RSSI_NAUGHT), 0, MaxBatch)
    /\ method \in {"z_score", "iqr", "median"}
    /\ threshold \in {2, 3}

NextFilter ==
    \/ FilterOutliers
    \/ FilterAgain

SpecFilter == InitFilter /\ [][NextFilter]_vars

\* ---------------------------------------------------------- Multilateration
DistanceCeiling == 1000

\* avg_distance > 1000, on the fraction num/den of hundredths of a foot.
ExceedsCeiling(avg) == avg.num > DistanceCeiling * 100 * avg.den

\* result.x of scipy.optimize.least_squares: some point; which one is the
\* optimizer's business.
Points == {<<150, 150>>, <<75, 225>>}
OptimizerOutcomes == {"success", "failure", "exception"}

\* PDU_GUI select_towers_for_multilateration: the towers with a reading.
active_towers == SelectSeq(Towers, LAMBDA t : Len(readings[t]) > 0)
down_towers == SelectSeq(Towers, LAMBDA t : ~(Len(readings[t]) > 0))

\* PDU_GUI_Strength_Graph select_towers_for_multilateration.
selected_SG == SelectSeq(Towers, LAMBDA t : ~(Len(readings[t]) < max_readings))

Range(s) == {s[i] : i \in 1..Len(s)}

\* np.mean of the positions of the towers in the solve, axis 0, as the
\* fractions x/den and y/den.
initial_guess(towers) ==
    [x |-> SeqSum([i \in 1..Len(towers) |-> tower_positions[towers[i]][1]]),
     y |-> SeqSum([i \in 1..Len(towers) |-> tower_positions[towers[i]][2]]),
     den |-> Len(towers)]

\* bounds = ([-50, -50], [350, 350])
bounds == [lo |-> <<-50, -50>>, hi |-> <<350, 350>>]

\* get_average_distance raises for one of the towers.
AverageRaises(towers) ==
    \E t \in Range(towers) :
        \/ get_average_reading(t).kind # "value"
        \/ get_average_distance(t).kind # "value"

Solved(outcome, residuals, rejected) ==
    [called |-> TRUE, raised |-> FALSE, optimizer |-> outcome,
     residuals |-> residuals, rejected |-> rejected]

Raised(outcome, residuals, rejected) ==
    [called |-> TRUE, raised |-> TRUE, optimizer |-> outcome,
     residuals |-> residuals, rejected |-> rejected]

RetOf(position) ==
    Ret("multilaterate", "", IF position = None THEN "None" ELSE "point", 0, 1)

\* PDU_GUI multilaterate that leaves estimated_position alone when the
\* optimizer fails or raises.
multilaterate_GUI_stale(outcome, x) ==
    LET towers_with_valid_distance ==
            SelectSeq(active_towers,
                      LAMBDA t : ~ExceedsCeiling(get_average_distance(t)))
        ignored == Range(active_towers) \ Range(towers_with_valid_distance)
    IN  /\ towers_for_multilateration' = active_towers
        /\ down_tower' = IF down_towers # <<>> THEN down_towers ELSE None
        /\ IF Len(active_towers) < 3
           THEN /\ estimated_position' = None
                /\ solve' = Solved("not invoked", {}, {})
                /\ ret' = RetOf(None)
           ELSE IF AverageRaises(active_towers)
           THEN /\ estimated_position' = estimated_position
                /\ solve' = Raised("not invoked", {}, {})
                /\ ret' = Ret("multilaterate", "", "ZeroDivisionError", 0, 1)
           ELSE IF Len(towers_with_valid_distance) < 3
           THEN /\ estimated_position' = None
                /\ solve' = Solved("not invoked", {}, ignored)
                /\ ret' = RetOf(None)
           ELSE /\ estimated_position' = IF outcome = "success" THEN x
                                         ELSE estimated_position
                /\ solve' = Solved(outcome, Range(towers_with_valid_distance), ignored)
                /\ ret' = RetOf(estimated_position')

\* PDU_GUI multilaterate.
multilaterate_GUI(outcome, x) ==
    LET towers_with_valid_distance ==
            SelectSeq(active_towers,
                      LAMBDA t : ~ExceedsCeiling(get_average_distance(t)))
        ignored == Range(active_towers) \ Range(towers_with_valid_distance)
    IN  /\ towers_for_multilateration' = active_towers
        /\ down_tower' = IF down_towers # <<>> THEN down_towers ELSE None
        /\ IF Len(active_towers) < 3
           THEN /\ estimated_position' = None
                /\ solve' = Solved("not invoked", {}, {})
                /\ ret' = RetOf(None)
           ELSE IF AverageRaises(active_towers)
           THEN /\ estimated_position' = estimated_position
                /\ solve' = Raised("not invoked", {}, {})
                /\ ret' = Ret("multilaterate", "", "ZeroDivisionError", 0, 1)
           ELSE IF Len(towers_with_valid_distance) < 3
           THEN /\ estimated_position' = None
                /\ solve' = Solved("not invoked", {}, ignored)
                /\ ret' = RetOf(None)
           ELSE /\ estimated_position' = IF outcome = "success" THEN x ELSE None
                /\ solve' = Solved(outcome, Range(towers_with_valid_distance), ignored)
                /\ ret' = RetOf(estimated_position')

\* PDU_GUI_Strength_Graph multilaterate: no ceiling, no minimum number of
\* towers, no try/except, result.x stored whatever result.success says.
multilaterate_SG(outcome, x) ==
    /\ towers_for_multilateration' = selected_SG
    /\ down_tower' = down_tower
    /\ IF AverageRaises(selected_SG)
       THEN /\ estimated_position' = estimated_position
            /\ solve' = Raised("not invoked", {}, {})
            /\ ret' = Ret("multilaterate", "", "ZeroDivisionError", 0, 1)
       ELSE IF outcome = "exception"
       THEN /\ estimated_position' = estimated_position
            /\ solve' = Raised(outcome, Range(selected_SG), {})
            /\ ret' = Ret("multilaterate", "", "exception", 0, 1)
       ELSE /\ estimated_position' = x
            /\ solve' = Solved(outcome, Range(selected_SG), {})
            /\ ret' = RetOf(x)

Multilaterate ==
    /\ mlatVariant # "none"
    /\ \E outcome \in OptimizerOutcomes, x \in Points :
          IF mlatVariant = "GUI"
          THEN multilaterate_GUI(outcome, x)
          ELSE multilaterate_SG(outcome, x)
    /\ UNCHANGED <<calcVars, mlatVariant, filterVars, probe, pc>>

\* Multilateration.__init__: WifiTowerScanner(-40, 2) in PDU_GUI, (-36, 2) in
\* PDU_GUI_Strength_Graph.  The Strength_Graph selection reads max_readings,
\* which only the single-read calculator has.
InitMlat ==
    /\ mlatVariant \in {"GUI", "SG"}
    /\ calcVariant \in IF mlatVariant = "GUI" THEN {"BASE", "MULTI"} ELSE {"BASE"}
    /\ RSSI_NAUGHT = IF mlatVariant = "GUI" THEN -40 ELSE -36
    /\ n = 2
    /\ InitCommon
    /\ NoBatch

NextMlat ==
    \/ AddReadingAndDistance
    \/ AddReadingsAndDistances
    \/ GetTowerSignal
    \/ Multilaterate

SpecMlat == InitMlat /\ [][NextMlat]_vars

\* The PDU_GUI Multilateration alone.
InitGUI == InitMlat /\ mlatVariant = "GUI"

SpecGUI == InitGUI /\ [][NextMlat]_vars

\* ------------------------------------------- admitting by tower name
\* A name that is not a key of self.readings.
UnknownTower == "Tower 5"

\* The admit with a lookup that creates a missing entry (setdefault).
admit_by_name_setdefault(c, tower, sample, batch) ==
    IF tower \notin DOMAIN c.readings
    THEN [raised |-> FALSE,
          c |-> [c EXCEPT !.readings =
                    c.readings @@ (tower :> IF batch THEN sample ELSE <<sample>>)]]
    ELSE IF batch THEN add_readings_and_distances(c, tower, sample)
         ELSE add_reading_and_distance(c, tower, sample)

\* self.readings[tower] is the first use of the name (after the filter, in
\* the batch call): a plain dict raises KeyError for a missing key.
admit_by_name(c, tower, sample, batch) ==
    IF tower \notin DOMAIN c.readings
    THEN [raised |-> TRUE, c |-> c]
    ELSE IF batch THEN add_readings_and_distances(c, tower, sample)
         ELSE add_reading_and_distance(c, tower, sample)

CommitNamed(step, op, tower) ==
    /\ TotalAdmitted(step.c) <= MaxAdmits
    /\ readings' = step.c.readings
    /\ distances' = step.c.distances
    /\ admitted' = step.c.admitted
    /\ ret' = Ret(op, tower,
                  IF tower \notin DOMAIN readings /\ step.raised
                  THEN "KeyError" ELSE Outcome(step), 0, 1)
    /\ UNCHANGED <<calcVariant, RSSI_NAUGHT, n, mlatVars, filterVars, probe, pc>>

AddReadingByName ==
    \E tower \in TowerSet \cup {UnknownTower}, reading \in ReadingValues(RSSI_NAUGHT) :
        CommitNamed(admit_by_name(Buffers, tower, reading, FALSE),
                    "add_reading_and_distance", tower)

AddReadingsByName ==
    /\ calcVariant = "MULTI"
    /\ \E tower \in TowerSet \cup {UnknownTower} :
       \E batch \in SeqsOf(ReadingValues(RSSI_NAUGHT), 0, MaxAdmits - TotalAdmitted(Buffers)) :
            CommitNamed(admit_by_name(Buffers, tower, batch, TRUE),
                        "add_readings_and_distances", tower)

NextNames ==
    \/ AddReadingByName
    \/ AddReadingsByName

SpecNames == Init /\ [][NextNames]_vars

\* ----------------------------------- the refresh cycle of the PDU_GUI app
\* main() with a get_tower_signal loop that stops one tower short.
main_next_short_loop(p) ==
    CASE p.at = "idle" -> [at |-> "get_tower_signal", i |-> 1]
      [] p.at = "get_tower_signal" ->
            IF p.i < Len(Towers) - 1
            THEN [at |-> "get_tower_signal", i |-> p.i + 1]
            ELSE [at |-> "multilaterate", i |-> 0]
      [] p.at = "multilaterate" -> [at |-> "run_animation", i |-> 0]
      [] p.at = "run_animation" -> [at |-> "save_animation", i |-> 0]
      [] OTHER -> Idle

\* The statement main() runs next: the constructor, get_tower_signal (one
\* loop iteration per tower), multilaterate, run_animation, save_animation;
\* then run_multilateration returns.
main_next(p) ==
    CASE p.at = "idle" -> [at |-> "get_tower_signal", i |-> 1]
      [] p.at = "get_tower_signal" ->
            IF p.i < Len(Towers)
            THEN [at |-> "get_tower_signal", i |-> p.i + 1]
            ELSE [at |-> "multilaterate", i |-> 0]
      [] p.at = "multilaterate" -> [at |-> "run_animation", i |-> 0]
      [] p.at = "run_animation" -> [at |-> "save_animation", i |-> 0]
      [] OTHER -> Idle

\* The Clock calls run_multilateration, on the GUI thread, when no callback
\* is running; main() builds a new Multilateration.
RunMultilateration ==
    /\ pc.at = "idle"
    /\ pc' = main_next(pc)
    /\ readings' = EmptyBuffers
    /\ distances' = EmptyBuffers
    /\ admitted' = EmptyBuffers
    /\ towers_for_multilateration' = NotSelected
    /\ down_tower' = None
    /\ estimated_position' = None
    /\ solve' = NoSolve
    /\ ret' = Ret("__init__", "", "ok", 0, 1)
    /\ UNCHANGED <<calcVariant, RSSI_NAUGHT, n, mlatVariant, filterVars, probe>>

\* What get_tower_signal hands to the calculator for one tower.
TowerSignals ==
    IF calcVariant = "BASE"
    THEN ReadingValues(RSSI_NAUGHT)
    ELSE SeqsOf(ReadingValues(RSSI_NAUGHT), 1, MaxSignalAdmits \div Len(Towers))

\* One iteration of the loop of get_tower_signal; an exception leaves main().
IngestTower ==
    /\ pc.at = "get_tower_signal"
    /\ \E signal \in TowerSignals :
          LET tower == Towers[pc.i]
              step == IF calcVariant = "BASE"
                      THEN add_reading_and_distance(Buffers, tower, signal)
                      ELSE add_readings_and_distances(Buffers, tower, signal)
          IN  /\ readings' = step.c.readings
              /\ distances' = step.c.distances
              /\ admitted' = step.c.admitted
              /\ ret' = Ret("get_tower_signal", tower, Outcome(step), 0, 1)
              /\ pc' = IF step.raised THEN Idle ELSE main_next(pc)
    /\ UNCHANGED <<calcVariant, RSSI_NAUGHT, n, mlatVars, filterVars, probe>>

CycleMultilaterate ==
    /\ pc.at = "multilaterate"
    /\ \E outcome \in OptimizerOutcomes, x \in Points : multilaterate_GUI(outcome, x)
    /\ pc' = main_next(pc)
    /\ UNCHANGED <<calcVars, mlatVariant, filterVars, probe>>

\* run_animation calls multilaterate again when there is no estimate.
RunAnimation ==
    /\ pc.at = "run_animation"
    /\ IF estimated_position = None
       THEN \E outcome \in OptimizerOutcomes, x \in Points : multilaterate_GUI(outcome, x)
       ELSE /\ ret' = Ret("run_animation", "", "ok", 0, 1)
            /\ UNCHANGED <<towers_for_multilateration, down_tower,
                           estimated_position, solve>>
    /\ pc' = main_next(pc)
    /\ UNCHANGED <<calcVars, mlatVariant, filterVars, probe>>

\* save_animation, then update_image; the callback returns.
SaveAnimation ==
    /\ pc.at = "save_animation"
    /\ ret' = Ret("update_image", "", "ok", 0, 1)
    /\ pc' = main_next(pc)
    /\ UNCHANGED <<calcVars, mlatVars, filterVars, probe>>

NextCycle ==
    \/ RunMultilateration
    \/ IngestTower
    \/ CycleMultilaterate
    \/ RunAnimation
    \/ SaveAnimation

SpecCycle == InitGUI /\ [][NextCycle]_vars

\* ---------------------------------------------------- RSSI.get_distance
\* Signal strengths around the reference, 20 dB apart.
ProbeValues(r0) == {r0 - 20, r0, r0 + 20}

\* get_distance at two signal strengths.
GetDistance ==
    /\ \E a \in ProbeValues(RSSI_NAUGHT), b \in ProbeValues(RSSI_NAUGHT) :
          LET ga == get_distance(RSSI_NAUGHT, n, a)
              gb == get_distance(RSSI_NAUGHT, n, b)
          IN  /\ probe' = [done |-> TRUE, raised |-> ga.raised \/ gb.raised,
                           a |-> a, b |-> b, da |-> ga.d, db |-> gb.d]
              /\ ret' = Ret("get_distance", "",
                            IF probe'.raised THEN "ZeroDivisionError" ELSE "value",
                            gb.d, 1)
    /\ UNCHANGED <<calcVars, mlatVars, filterVars, pc>>

\* RSSI(RSSI_NAUGHT, n): any reference, any n.
InitDistance ==
    /\ calcVariant = "BASE"
    /\ RSSI_NAUGHT \in {-60, -40, -36}
    /\ n \in {-2, -1, 0, 1, 2}
    /\ mlatVariant = "none"
    /\ InitCommon
    /\ NoBatch

NextDistance == GetDistance

SpecDistance == InitDistance /\ [][NextDistance]_vars

\* ------------------------------------------------- RSSI.set_rssi_naught
\* The references a caller switches between.
RecalValues == {-40, -60}

\* set_rssi_naught that also recomputes the stored distances.
set_rssi_naught_retroactive(c, rssi_naught) ==
    [RSSI_NAUGHT |-> rssi_naught,
     c |-> [c EXCEPT !.distances =
                [t \in TowerSet |->
                    [i \in 1..Len(c.distances[t]) |->
                        get_distance(rssi_naught, n, c.readings[t][i]).d]]]]

\* self.RSSI_NAUGHT = rssi_naught
set_rssi_naught(c, rssi_naught) == [RSSI_NAUGHT |-> rssi_naught, c |-> c]

SetRssiNaught ==
    \E rssi_naught \in RecalValues :
        LET r == set_rssi_naught(Buffers, rssi_naught)
        IN  /\ RSSI_NAUGHT' = r.RSSI_NAUGHT
            /\ readings' = r.c.readings
            /\ distances' = r.c.distances
            /\ admitted' = r.c.admitted
            /\ ret' = Ret("set_rssi_naught", "", "ok", rssi_naught, 1)
            /\ UNCHANGED <<calcVariant, n, mlatVars, filterVars, probe, pc>>

\* add_reading_and_distance with a reading on the grid of the current
\* reference.
AddReadingRecal ==
    \E tower \in TowerSet, reading \in ReadingValues(RSSI_NAUGHT) :
        Commit(add_reading_and_distance(Buffers, tower, reading),
               "add_reading_and_distance", tower, MaxRecalAdmits)

NextRecal ==
    \/ AddReadingRecal
    \/ SetRssiNaught

SpecRecal == Init /\ [][NextRecal]_vars

\* ------------------------------------- one batch through the admit path
\* Two readings of the grid are enough for the filter to drop a value.
BatchValues == {RSSI_NAUGHT - 20, RSSI_NAUGHT}

BatchDelivered == ret.op = "add_readings_and_distances"

\* Samples already in the buffers when the batch arrives.
AddPrior ==
    /\ ~BatchDelivered
    /\ \E tower \in TowerSet, reading \in BatchValues :
          Commit(add_reading_and_distance(Buffers, tower, reading),
                 "add_reading_and_distance", tower, MaxPrior)

\* add_readings_and_distances(tower, data).
DeliverBatch ==
    /\ ~BatchDelivered
    /\ \E tower \in TowerSet :
          Commit(add_readings_and_distances(Buffers, tower, data),
                 "add_readings_and_distances", tower, MaxPrior + MaxBatch)

InitBatch ==
    /\ calcVariant = "MULTI"
    /\ RSSI_NAUGHT = -40
    /\ n \in {0, 2}
    /\ mlatVariant = "none"
    /\ InitCommon
    /\ data \in SeqsOf(BatchValues, 0, MaxBatch)
    /\ method = "z_score"
    /\ threshold = 2

NextBatch ==
    \/ AddPrior
    \/ DeliverBatch

SpecBatch == InitBatch /\ [][NextBatch]_vars

\* ------------------------------------------------------------- the claims
Capacity == IF calcVariant = "BASE" THEN max_readings ELSE DequeMaxLen

Min(a, b) == IF a < b THEN a ELSE b

\* The last k elements of s.
LastN(s, k) == SubSeq(s, Len(s) - k + 1, Len(s))

\* Non-empty buffer and average distance within the ceiling.
Eligible(t) ==
    /\ Len(readings[t]) > 0
    /\ Len(distances[t]) > 0
    /\ SeqSum(distances[t]) <= DistanceCeiling * 100 * Len(distances[t])

EligibleSet == {t \in TowerSet : Eligible(t)}

\* Data present, average distance over the ceiling.
Implausible(t) ==
    /\ Len(readings[t]) > 0
    /\ Len(distances[t]) > 0
    /\ SeqSum(distances[t]) > DistanceCeiling * 100 * Len(distances[t])

\* The state right after a multilaterate call: no buffer has changed since.
AfterMultilaterate == ret.op = "multilaterate"

OptimizerInvoked == solve.optimizer \in OptimizerOutcomes

\* C1: for every tower the stored readings and the stored distances have the
\* same length in every reachable state, also after a call that raised while
\* computing the distance (n = 0).
C1_SameLength == \A t \in TowerSet : Len(readings[t]) = Len(distances[t])

\* C2: after any sequence of k admitted samples a tower's readings are the
\* last min(k, C) of them, oldest first, and its distances are the distances
\* of those same samples, in the same order.
C2_FifoWindow ==
    \A t \in TowerSet :
        /\ readings[t] = LastN(admitted[t], Min(Len(admitted[t]), Capacity))
        /\ Len(distances[t]) = Len(readings[t])
        /\ \A i \in 1..Len(readings[t]) :
              /\ ~get_distance(RSSI_NAUGHT, n, readings[t][i]).raised
              /\ distances[t][i] = get_distance(RSSI_NAUGHT, n, readings[t][i]).d

\* C3: get_average_reading and get_average_distance on an empty buffer give
\* an explicit "no data" result: never a number, never a ZeroDivisionError.
C3_EmptyAverageIsNoData ==
    /\ (ret.op = "get_average_reading" /\ readings[ret.tower] = <<>>)
          => ret.kind = "no data"
    /\ (ret.op = "get_average_distance" /\ distances[ret.tower] = <<>>)
          => ret.kind = "no data"

\* C4: the towers whose residuals enter a solve are exactly the eligible
\* ones; a tower without samples, or with an average distance over 1000 ft,
\* never contributes.
C4_ResidualsAreEligible ==
    AfterMultilaterate =>
        /\ solve.residuals \subseteq EligibleSet
        /\ OptimizerInvoked => solve.residuals = EligibleSet

\* C5: with fewer than 3 eligible towers the optimizer is not invoked and
\* estimated_position is None.
C5_FewerThanThreeUnavailable ==
    (AfterMultilaterate /\ Cardinality(EligibleSet) < 3) =>
        /\ ~OptimizerInvoked
        /\ estimated_position = None

\* C6: when multilaterate returns a point, towers_for_multilateration is
\* exactly the set of eligible towers whose distances entered the residuals;
\* a tower rejected by the ceiling is not in it.
C6_TowersUsedAreResiduals ==
    (AfterMultilaterate /\ ret.kind = "point") =>
        /\ Range(towers_for_multilateration) = solve.residuals
        /\ Range(towers_for_multilateration) = EligibleSet
        /\ \A t \in Range(towers_for_multilateration) : ~Implausible(t)

\* C7: after every multilaterate call a tower with an empty buffer is listed
\* in down_tower, a tower with data and an average distance over the ceiling
\* is reported as rejected and not listed as down, and a tower that took
\* part in the solve is in neither group.
C7_ExcludedReportedOnce ==
    AfterMultilaterate =>
        \A t \in TowerSet :
            /\ readings[t] = <<>> =>
                  (t \in Range(down_tower) /\ t \notin solve.rejected)
            /\ Implausible(t) =>
                  (t \in solve.rejected /\ t \notin Range(down_tower))
            /\ t \in solve.residuals =>
                  (t \notin solve.rejected /\ t \notin Range(down_tower))

\* C8: whatever the optimizer does (success, non-convergence, an exception),
\* multilaterate returns normally with a point or None, and a non-converged
\* result is not stored as the estimate.
C8_OptimizerNeverEscapes ==
    (AfterMultilaterate /\ OptimizerInvoked) =>
        /\ ~solve.raised
        /\ ret.kind \in {"point", "None"}
        /\ solve.optimizer # "success" => estimated_position = None

UnknownMethod == method \notin {"z_score", "iqr"}

\* C9 as stated: filter_outliers with an unknown method name fails for a
\* batch of any length.
C9_UnknownMethodAlwaysFails ==
    (filtered.done /\ UnknownMethod) => filtered.raised

\* C9: filter_outliers with an unknown method name raises ValueError for
\* every non-empty batch and returns the empty list for the empty batch; the
\* call leaves every tower's readings and distances as they were.
C9_UnknownMethodFailsNonEmpty ==
    (filtered.done /\ UnknownMethod) =>
        /\ filtered.raised <=> data # <<>>
        /\ filtered.out = <<>>
        /\ readings = EmptyBuffers
        /\ distances = EmptyBuffers

C9_Witness ==
    /\ filtered.done /\ UnknownMethod
    /\ Len(data) = MaxBatch
    /\ filtered.raised

\* C10 as stated: filtering a filtered batch again, same method and
\* threshold, returns it unchanged.
C10_Idempotent == refiltered.done => refiltered.out = filtered.out

\* C10: with the default z-score method and threshold 2, filtering is
\* idempotent on batches of at most 5 values (a first pass that drops a
\* value leaves at most 4, too few for any z-score to reach 2).
C10_IdempotentUpToFive ==
    (refiltered.done /\ method = "z_score" /\ threshold = 2 /\ Len(data) <= 5)
        => refiltered.out = filtered.out

C10_Witness ==
    /\ refiltered.done /\ method = "z_score" /\ threshold = 2
    /\ Len(data) = 5
    /\ Len(filtered.out) < Len(data)
    /\ refiltered.out = filtered.out

\* ------------------------------------------------------------------- C11
\* N * (x - mean), for a batch of N values.
Deviation(batch, x) == Len(batch) * x - SeqSum(batch)

\* N^3 times the population variance: the sum of the squared deviations.
SumSqDeviation(batch) ==
    SeqSum([i \in 1..Len(batch) |-> Deviation(batch, batch[i]) * Deviation(batch, batch[i])])

\* The squared z-score of x against the squared threshold t, times the
\* variance: z^2 = N * Deviation^2 / SumSqDeviation.
ZBelow(batch, t, x) ==
    Len(batch) * Deviation(batch, x) * Deviation(batch, x) < t * t * SumSqDeviation(batch)
ZAt(batch, t, x) ==
    Len(batch) * Deviation(batch, x) * Deviation(batch, x) = t * t * SumSqDeviation(batch)

\* The values of batch from position i on that the rule keeps, in order.
RECURSIVE KeptInOrder(_, _, _)
KeptInOrder(batch, t, i) ==
    IF i > Len(batch) THEN <<>>
    ELSE (IF SumSqDeviation(batch) = 0 \/ ZBelow(batch, t, batch[i])
          THEN <<batch[i]>> ELSE <<>>) \o KeptInOrder(batch, t, i + 1)

\* C11: z_score_filter keeps a value x of the batch exactly when the
\* population standard deviation of the whole batch is zero or
\* |x - mean| / stdev is strictly below the threshold (a value exactly at
\* the threshold is dropped); the kept values stay in input order and every
\* one of them is a value of the batch.
C11_ZScoreKeepsBelowThreshold ==
    (filtered.done /\ method = "z_score" /\ data # <<>>) =>
        /\ ~filtered.raised
        /\ filtered.out = KeptInOrder(data, threshold, 1)
        /\ Range(filtered.out) \subseteq Range(data)

\* A value exactly at the threshold, dropped.
C11_Witness ==
    /\ filtered.done /\ method = "z_score" /\ threshold = 2
    /\ Len(data) = 5
    /\ \E i \in 1..Len(data) :
          /\ ZAt(data, threshold, data[i])
          /\ data[i] \notin Range(filtered.out)
    /\ Len(filtered.out) = 4

\* ------------------------------------------------------------------- C12
\* for x in xs: add_reading_and_distance(tower, x); the first exception
\* ends the loop.
RECURSIVE AdmitEach(_, _, _)
AdmitEach(c, tower, xs) ==
    IF xs = <<>> THEN [raised |-> FALSE, c |-> c]
    ELSE LET step == add_reading_and_distance(c, tower, Head(xs))
         IN  IF step.raised THEN step ELSE AdmitEach(step.c, tower, Tail(xs))

\* What the default filter retains of the incoming batch alone.
Retained == filter_outliers(data, "z_score", 2).out

\* C12: add_readings_and_distances(tower, batch) has the same effect on the
\* buffers as filtering the incoming batch once, on its own, and then
\* admitting each retained sample one at a time in order with per-element
\* FIFO eviction; a retained batch at least as long as the capacity leaves
\* exactly its last C samples.
C12_BatchIsOneByOne ==
    [][(~BatchDelivered /\ BatchDelivered') =>
         LET t == ret'.tower
             seq == AdmitEach(Buffers, t, Retained)
         IN  /\ readings' = seq.c.readings
             /\ distances' = seq.c.distances
             /\ Len(Retained) >= Capacity =>
                   /\ readings'[t] = LastN(Retained, Capacity)
                   /\ Len(distances'[t]) = Capacity]_vars

\* ------------------------------------------------------------------- C19
\* C19: the default z-score filter (threshold 2) retains at least one value
\* of every non-empty batch, so right after add_readings_and_distances with
\* a non-empty batch the tower's readings are non-empty and the tower is
\* not among the down towers.
C19_NonEmptyBatchLeavesData ==
    (BatchDelivered /\ data # <<>>) =>
        /\ Retained # <<>>
        /\ Len(admitted[ret.tower]) >= 1
        /\ admitted[ret.tower][Len(admitted[ret.tower])] = Retained[Len(Retained)]
        /\ readings[ret.tower] # <<>>
        /\ readings[ret.tower][Len(readings[ret.tower])] = Retained[Len(Retained)]
        /\ ret.tower \notin Range(down_towers)

\* A batch the filter shortened, admitted to an empty buffer.
C19_Witness ==
    /\ BatchDelivered
    /\ Len(data) >= 5
    /\ Len(Retained) < Len(data)
    /\ admitted[ret.tower] = Retained
    /\ readings[ret.tower] # <<>>

\* ------------------------------------------------------------------- C13
Last(q) == q[Len(q)]

\* C13: set_rssi_naught changes only the reference RSSI: the stored
\* readings and distances of every tower stay as they were, and a sample
\* admitted afterwards gets its distance from the new reference, the other
\* stored distances staying as they were.
C13_RecalibrationFrame ==
    [][/\ ret'.op = "set_rssi_naught" =>
            /\ RSSI_NAUGHT' = ret'.num
            /\ n' = n
            /\ readings' = readings
            /\ distances' = distances
       /\ (ret'.op = "add_reading_and_distance" /\ ret'.kind = "ok") =>
            LET t == ret'.tower
                d == get_distance(RSSI_NAUGHT', n', Last(readings'[t])).d
            IN  /\ Last(distances'[t]) = d
                /\ \A i \in 1..(Len(distances'[t]) - 1) :
                      distances'[t][i] = LastN(distances[t], Len(distances'[t]) - 1)[i]
                /\ \A u \in TowerSet \ {t} : distances'[u] = distances[u]]_vars

\* A distance stored under -40 kept through the change to -60, next to one
\* admitted afterwards: -80 is 10 m from a -60 reference (100 m from -40).
C13_Witness ==
    /\ RSSI_NAUGHT = -60
    /\ ret.op = "add_reading_and_distance" /\ ret.kind = "ok"
    /\ readings[ret.tower] = <<-80>> /\ distances[ret.tower] = <<3280>>
    /\ \E t \in TowerSet \ {ret.tower} :
          readings[t] = <<-100>> /\ distances[t] = <<328084>>

\* ------------------------------------------------------------------- C14
\* C14 as stated: for every reference and every nonzero n, positive or
\* negative, the stronger of two signals gets the strictly smaller distance.
C14_DecreasingForAnyN ==
    (probe.done /\ n # 0 /\ probe.a < probe.b) =>
        /\ ~probe.raised
        /\ probe.da > probe.db

\* C14: for every reference and every positive n, get_distance is strictly
\* decreasing in the signal strength; for a negative n it is strictly
\* increasing.
C14_DecreasingForPositiveN ==
    (probe.done /\ n # 0 /\ probe.a < probe.b) =>
        /\ ~probe.raised
        /\ n > 0 => probe.da > probe.db
        /\ n < 0 => probe.da < probe.db

\* 20 dB below and 20 dB above the reference, n = 2: 10 m and 0.1 m.
C14_Witness ==
    /\ probe.done /\ n = 2
    /\ probe.a = RSSI_NAUGHT - 20 /\ probe.b = RSSI_NAUGHT + 20
    /\ probe.da = 3280 /\ probe.db = 32

\* ------------------------------------------------------------------- C16
\* Every tower has been handed a sample since the Multilateration of this
\* cycle was built.
AllIngested == \A t \in TowerSet : admitted[t] # <<>>

\* The callback is at a statement that runs a solve.
Solving == pc.at \in {"multilaterate", "run_animation"}

BuffersChange == readings' # readings \/ distances' # distances

\* C16: in every refresh cycle the ingest for all four towers has completed
\* before multilaterate reads a buffer and no buffer changes from the
\* selection to the end of the solve; buffers change only while no solve is
\* running, and a callback starts only when the previous one has returned.
C16_IngestBeforeSolve ==
    [][/\ Solving => (AllIngested /\ ~BuffersChange)
       /\ BuffersChange => pc.at \in {"idle", "get_tower_signal"}
       /\ (pc'.at = "get_tower_signal" /\ pc'.i = 1) => pc.at = "idle"
       /\ solve' # solve => (Solving \/ pc.at = "idle")]_vars

\* A solve over the four towers just ingested.
C16_Witness ==
    /\ pc.at = "run_animation"
    /\ AllIngested
    /\ solve.called /\ solve.optimizer = "success"
    /\ solve.residuals = TowerSet

\* ------------------------------------------------------------------- C17
Admits == {"add_reading_and_distance", "add_readings_and_distances"}

\* C17: admitting a sample or a batch for a tower name that is not
\* configured fails with an error, leaves every tower's readings and
\* distances as they were, and creates no buffer entry for the name.
C17_UnknownTowerRejected ==
    [][(ret'.op \in Admits /\ ret'.tower \notin TowerSet) =>
          /\ ret'.kind = "KeyError"
          /\ readings' = readings
          /\ distances' = distances
          /\ DOMAIN readings' = TowerSet
          /\ DOMAIN distances' = TowerSet]_vars

\* The unknown name refused with samples already stored.
C17_Witness ==
    /\ ret.op \in Admits /\ ret.tower = UnknownTower
    /\ ret.kind = "KeyError"
    /\ \E t \in TowerSet : readings[t] # <<>> /\ distances[t] # <<>>
    /\ DOMAIN readings = TowerSet

\* ------------------------------------------------------------------- C18
\* The last multilaterate call ended without a point: too few towers, too
\* few within the ceiling, or an optimizer that failed or raised.
EndedUnavailable == solve.called /\ solve.optimizer # "success"

StrictlyInside(g) ==
    /\ g.den > 0
    /\ bounds.lo[1] * g.den < g.x /\ g.x < bounds.hi[1] * g.den
    /\ bounds.lo[2] * g.den < g.y /\ g.y < bounds.hi[2] * g.den

\* The towers of a set in configuration order.
InOrder(S) == SelectSeq(Towers, LAMBDA t : t \in S)

\* C20: whenever the PDU_GUI multilaterate invokes the optimizer, over three
\* or four towers, its initial guess (the centroid of the positions of the
\* towers in the solve) lies strictly inside the box -50..350 in x and y.
\* Every subset of three or four configured towers is the set of some solve.
C20_InitialGuessInsideBounds ==
    (AfterMultilaterate /\ OptimizerInvoked) =>
        /\ Cardinality(solve.residuals) \in {3, 4}
        /\ StrictlyInside(initial_guess(InOrder(solve.residuals)))

\* A solve with Tower 4 left out: the guess is (200, 100).
C20_Witness ==
    /\ AfterMultilaterate /\ OptimizerInvoked
    /\ solve.residuals = TowerSet \ {"Tower 4"}
    /\ initial_guess(InOrder(solve.residuals)) = [x |-> 600, y |-> 300, den |-> 3]

====
